---- MODULE Spec2Model ----
(***************************************************************************)
(* Model of the Scholar downloader backend (app.py): the search endpoint   *)
(* with its paginated scraper and PDF-link resolver, the bulk download     *)
(* endpoint that builds the ZIP archive, and the filename sanitizer.       *)
(*                                                                         *)
(* Text is modelled as a sequence of one-character strings, so that        *)
(* prefixes, substrings, trimming and truncation are computed as Python    *)
(* computes them.  Python's None is the value None below.                  *)
(***************************************************************************)
EXTENDS Integers, Sequences, FiniteSets, TLC

VARIABLES
    pc,             \* position of the request handler
    io,             \* outgoing calls made so far: requests.get and time.sleep
    served,         \* what the remote hosts answered to each requests.get
    topic,          \* search / download_zip: local `topic`
    num,            \* search: local `num`, scrape_scholar's num_results
    pages_needed,   \* scrape_scholar: local
    page_idx,       \* scrape_scholar: loop variable
    all_papers,     \* scrape_scholar: accumulator
    papers,         \* search: scrape result; download_zip: the input list
    response,       \* the HTTP response of the handler
    i,              \* download_zip: loop index (0-based)
    downloaded,     \* download_zip: counter
    metadata_lines, \* download_zip: accumulated report blocks
    zf,             \* download_zip: entries written to the archive, in order
    name,           \* sanitize: the argument under test
    once,           \* sanitize(name)
    twice           \* sanitize(sanitize(name))

vars == <<pc, io, served, topic, num, pages_needed, page_idx, all_papers,
          papers, response, i, downloaded, metadata_lines, zf, name, once, twice>>

-----------------------------------------------------------------------------
(* Program constants *)

REQUEST_DELAY == 2
MAX_RESULTS == 30
PAGE_SIZE == 10
NAME_LIMIT == 150
ABSTRACT_LIMIT == 200
MAGIC_LEN == 4
ZIP_DELAY == 1
DEFAULT_NUM == 10

(* Bounds of the model *)

MaxNum == 32            \* requested num_results range over -MaxNum..MaxNum
MaxBlocks == 11         \* result blocks one page can hold
MaxPapers == 3          \* records in one download-zip request
MaxTail == 3            \* freely chosen characters of a sanitize argument

-----------------------------------------------------------------------------
(* Python values and helpers *)

None == <<"<None>">>

Min(a, b) == IF a <= b THEN a ELSE b
Max(a, b) == IF a >= b THEN a ELSE b

\* truthiness of an optional string: `if url:`
Truthy(v) == v # None /\ v # <<>>

\* s[:n] for any integer n
PyPrefix(s, n) ==
    IF n >= 0 THEN SubSeq(s, 1, Min(n, Len(s)))
              ELSE SubSeq(s, 1, Max(Len(s) + n, 0))

\* s.startswith(p)
StartsWith(s, p) == Len(s) >= Len(p) /\ SubSeq(s, 1, Len(p)) = p

\* sub in s
Contains(s, sub) ==
    \E k \in 1..(Len(s) - Len(sub) + 1) : SubSeq(s, k, k + Len(sub) - 1) = sub

\* one character of str.lower()
LowerChar(c) ==
    CASE c = "P" -> "p"
      [] c = "D" -> "d"
      [] c = "F" -> "f"
      [] c = "K" -> "k"
      [] c = "N" -> "n"
      [] c = "X" -> "x"
      [] OTHER -> c

Lower(s) == [k \in 1..Len(s) |-> LowerChar(s[k])]

Whitespace == {" ", "\t", "\n"}

RECURSIVE LStrip(_)
LStrip(s) == IF s # <<>> /\ Head(s) \in Whitespace THEN LStrip(Tail(s)) ELSE s

RECURSIVE RStrip(_)
RStrip(s) ==
    IF s # <<>> /\ s[Len(s)] \in Whitespace THEN RStrip(SubSeq(s, 1, Len(s) - 1)) ELSE s

\* str.strip()
Strip(s) == RStrip(LStrip(s))

\* re.sub(r'[...]', '', s): s without the characters of `bad`
Remove(s, bad) == SelectSeq(s, LAMBDA c : c \notin bad)

Digits == <<"0", "1", "2", "3", "4", "5", "6", "7", "8", "9">>

\* str(n) for n >= 0
RECURSIVE DecStr(_)
DecStr(n) == IF n < 10 THEN <<Digits[n + 1]>> ELSE DecStr(n \div 10) \o <<Digits[(n % 10) + 1]>>

Pad(n) == [k \in 1..n |-> "a"]

-----------------------------------------------------------------------------
(* sanitize *)

Forbidden == {"<", ">", ":", "\"", "/", "\\", "|", "?", "*"}

sanitize(s) ==
    LET stripped == Strip(Remove(s, Forbidden))
        replaced == [k \in 1..Len(stripped) |-> IF stripped[k] = " " THEN "_" ELSE stripped[k]]
    IN  PyPrefix(replaced, NAME_LIMIT)

-----------------------------------------------------------------------------
(* resolve_pdf_url *)

HttpsColon == <<"h", "t", "t", "p", "s", ":">>
ScholarOrigin == HttpsColon \o <<"/", "/", "s", "c", "h", "o", "l", "a", "r", ".", "g", "o", "o", "g", "l", "e", ".", "c", "o", "m">>
DotPdf == <<".", "p", "d", "f">>

\* `if url is not None:` instead of `if url:`
resolve_pdf_url_keeps_empty(paper) ==
    LET url == paper.pdf_link IN
    IF url # None
    THEN IF StartsWith(url, <<"/", "/">>) THEN HttpsColon \o url
         ELSE IF StartsWith(url, <<"/">>) THEN ScholarOrigin \o url
         ELSE url
    ELSE IF Truthy(paper.source_url) /\ Contains(Lower(paper.source_url), DotPdf)
         THEN paper.source_url
         ELSE None

resolve_pdf_url(paper) ==
    LET url == paper.pdf_link IN
    IF Truthy(url)
    THEN IF StartsWith(url, <<"/", "/">>) THEN HttpsColon \o url
         ELSE IF StartsWith(url, <<"/">>) THEN ScholarOrigin \o url
         ELSE url
    ELSE IF Truthy(paper.source_url) /\ Contains(Lower(paper.source_url), DotPdf)
         THEN paper.source_url
         ELSE None

-----------------------------------------------------------------------------
(* The upstream search engine as the scraper sees it: result number k of  *)
(* the query is the block Hit(k); the page requested at `start = offset`  *)
(* holds the blocks Hit(offset), Hit(offset + 1), ...  A block carries    *)
(* what the extractor reads for the fields the resolver uses: the title   *)
(* text, the href of its [PDF] anchor and the href of the title's anchor  *)
(* (None when the tag or the anchor is missing).  The byline, year and    *)
(* snippet fields are not modelled.                                       *)

PdfLinks ==
    << None,
       <<>>,
       <<"/", "/", "h", "/", "a", ".", "p", "d", "f">>,
       <<"/", "r", ".", "p", "d", "f">>,
       <<"h", "t", "t", "p", ":", "/", "/", "h", "/", "a">> >>

SourceUrls ==
    << None,
       <<>>,
       <<"h", "/", "f", ".", "p", "d", "f">>,
       <<"h", "/", "F", ".", "P", "D", "F">>,
       <<"h", "/", "p", "a", "g", "e">> >>

\* a block without a title tag has neither a title text nor a title anchor
Hit(k) ==
    LET href == SourceUrls[((k \div Len(PdfLinks)) % Len(SourceUrls)) + 1]
        titled == href # None \/ k % 2 = 1
    IN  [ title_text |-> IF titled THEN <<"t">> \o DecStr(k) ELSE None,
          pdf_href   |-> PdfLinks[(k % Len(PdfLinks)) + 1],
          title_href |-> href ]

Page(offset, k) == [j \in 1..k |-> Hit(offset + j - 1)]

\* how many blocks a served page can hold: none, a few, a full page, one more
BlockCounts == {0, 1, 4, MaxBlocks - 1, MaxBlocks}

\* what one requests.get of a result page can give
PageOutcomes(offset) ==
    {[ok |-> FALSE, blocks |-> <<>>]}
      \cup {[ok |-> TRUE, blocks |-> Page(offset, k)] : k \in BlockCounts}

Untitled == <<"U", "n", "t", "i", "t", "l", "e", "d">>

\* the body of `for item in results`
Extract(item) ==
    LET paper == [ title      |-> IF item.title_text # None THEN item.title_text ELSE Untitled,
                   pdf_link   |-> item.pdf_href,
                   source_url |-> item.title_href ]
        download_url == resolve_pdf_url(paper)
    IN  [ title        |-> paper.title,
          pdf_link     |-> paper.pdf_link,
          source_url   |-> paper.source_url,
          download_url |-> download_url,
          has_pdf      |-> download_url # None ]

\* all_papers.append(paper) for every block of the page, in document order
AppendPageReversed(acc, results) ==
    [j \in 1..Len(results) |-> Extract(results[Len(results) + 1 - j])] \o acc

AppendPage(acc, results) ==
    acc \o [j \in 1..Len(results) |-> Extract(results[j])]

PagesNeeded(num_results) == (num_results \div PAGE_SIZE) + 1

\* return all_papers[:num_results]
ScrapeResult(acc, num_results) == PyPrefix(acc, num_results)

Get(arg) == [op |-> "get", arg |-> arg]
Sleep(t) == [op |-> "sleep", arg |-> t]

-----------------------------------------------------------------------------
(* POST /api/search *)

DefaultTopic == <<"K", "N", "N", " ", "n", "a", "n", "o", "r", "o", "d", "s">>

TopicInputs == {None, <<>>, <<" ">>, <<" ", "X", " ">>}

\* no cap on the requested count
CapNumMissing(n) == n

\* min(int(...), MAX_RESULTS)
CapNum(n) == Min(n, MAX_RESULTS)

NoResultsMessage == "No results returned. Google Scholar may be blocking automated requests. See README for solutions."

\* an empty result reported as a server failure
SearchResponseFailing(ps, t) ==
    IF ps = <<>>
    THEN [status |-> 500, body |-> [error |-> NoResultsMessage]]
    ELSE [status |-> 200, body |-> [papers |-> ps, count |-> Len(ps), topic |-> t]]

\* the two jsonify(...) returns that follow scrape_scholar
SearchResponse(ps, t) ==
    IF ps = <<>>
    THEN [status |-> 200, body |-> [error |-> NoResultsMessage, papers |-> <<>>, count |-> 0]]
    ELSE [status |-> 200, body |-> [papers |-> ps, count |-> Len(ps), topic |-> t]]

NoResponse == [status |-> 0, body |-> [none |-> TRUE]]

Idle ==
    /\ io = <<>> /\ served = <<>>
    /\ topic = <<>> /\ num = 0 /\ pages_needed = 0 /\ page_idx = 0
    /\ all_papers = <<>> /\ papers = <<>> /\ response = NoResponse
    /\ i = 0 /\ downloaded = 0 /\ metadata_lines = <<>> /\ zf = <<>>
    /\ name = <<>> /\ once = <<>> /\ twice = <<>>

zipVars == <<i, downloaded, metadata_lines, zf>>
sanitizeVars == <<name, once, twice>>

InitSearch == pc = "start" /\ Idle

\* search() up to the call of scrape_scholar, and scrape_scholar's first two lines
SearchRequest(t, hasNum, n) ==
    /\ pc = "start"
    /\ LET tp == Strip(IF t = None THEN DefaultTopic ELSE t)
           nm == CapNum(IF hasNum THEN n ELSE DEFAULT_NUM)
       IN  /\ topic' = tp
           /\ num' = nm
           /\ IF tp = <<>>
              THEN /\ response' = [status |-> 400, body |-> [error |-> "Topic is required"]]
                   /\ pc' = "done"
                   /\ UNCHANGED pages_needed
              ELSE /\ pages_needed' = PagesNeeded(nm)
                   /\ pc' = IF 0 < PagesNeeded(nm) THEN "page" ELSE "return"
                   /\ UNCHANGED response
    /\ UNCHANGED <<io, served, page_idx, all_papers, papers>>
    /\ UNCHANGED zipVars /\ UNCHANGED sanitizeVars

\* one iteration of `for page_idx in range(pages_needed)`
ScrapePage(outcome) ==
    /\ pc = "page"
    /\ LET offset == page_idx * PAGE_SIZE
           io1 == Append(io, Get(offset))
           acc == AppendPage(all_papers, outcome.blocks)
       IN  /\ outcome \in PageOutcomes(offset)
           /\ served' = Append(served, outcome)
           /\ IF ~outcome.ok \/ outcome.blocks = <<>>
              THEN /\ pc' = "return"
                   /\ io' = io1
                   /\ UNCHANGED <<all_papers, page_idx>>
              ELSE /\ all_papers' = acc
                   /\ IF Len(acc) >= num
                      THEN /\ pc' = "return"
                           /\ io' = io1
                           /\ UNCHANGED page_idx
                      ELSE /\ io' = Append(io1, Sleep(REQUEST_DELAY))
                           /\ page_idx' = page_idx + 1
                           /\ pc' = IF page_idx + 1 < pages_needed THEN "page" ELSE "return"
    /\ UNCHANGED <<topic, num, pages_needed, papers, response>>
    /\ UNCHANGED zipVars /\ UNCHANGED sanitizeVars

\* scrape_scholar's return and the rest of search()
SearchReturn ==
    /\ pc = "return"
    /\ papers' = ScrapeResult(all_papers, num)
    /\ response' = SearchResponse(papers', topic)
    /\ pc' = "done"
    /\ UNCHANGED <<io, served, topic, num, pages_needed, page_idx, all_papers>>
    /\ UNCHANGED zipVars /\ UNCHANGED sanitizeVars

NextSearch ==
    \/ \E t \in TopicInputs, hasNum \in BOOLEAN, n \in (0 - MaxNum)..MaxNum :
            SearchRequest(t, hasNum, n)
    \/ \E offset \in {page_idx * PAGE_SIZE} : \E outcome \in PageOutcomes(offset) :
            ScrapePage(outcome)
    \/ SearchReturn

SpecSearch == InitSearch /\ [][NextSearch]_vars

-----------------------------------------------------------------------------
(* Properties of the search endpoint and the scraper (SpecSearch) *)

Gets == SelectSeq(io, LAMBDA e : e.op = "get")

\* the records of the blocks the upstream served, in page and document order
RECURSIVE Gathered(_)
Gathered(answers) ==
    IF answers = <<>> THEN <<>>
    ELSE Gathered(SubSeq(answers, 1, Len(answers) - 1))
           \o [j \in 1..Len(answers[Len(answers)].blocks) |->
                    Extract(answers[Len(answers)].blocks[j])]

Scraped == pc = "done" /\ response.status = 200

\* C1 as stated: scrape returns a list of length at most min(desired_count, 30),
\* for every integer desired_count.
C1_LengthAtMostMin == Scraped => Len(papers) <= Min(num, 30)

\* C1 amended: the list scrape returns to the search endpoint has length at
\* most max(0, min(desired_count, 30)); for a negative desired_count it is empty.
C1_LengthAtMostMinOrZero == Scraped => Len(papers) <= Max(0, Min(num, 30))

C1_Witness ==
    /\ Scraped
    /\ num = 30
    /\ Len(all_papers) > 30
    /\ Len(papers) = 30

\* C6: every record the scraper produces has has_pdf true exactly when its
\* download_url is a non-empty string, and no download_url is the empty string.
C6_HasPdfIffDownloadUrl ==
    \A k \in 1..Len(all_papers) :
        /\ all_papers[k].has_pdf <=>
              (all_papers[k].download_url # None /\ Len(all_papers[k].download_url) > 0)
        /\ all_papers[k].download_url # <<>>

C6_Witness ==
    /\ \A a \in 1..Len(PdfLinks), b \in 1..Len(SourceUrls) :
          \E k \in 1..Len(all_papers) :
              /\ all_papers[k].pdf_link = PdfLinks[a]
              /\ all_papers[k].source_url = SourceUrls[b]
    /\ \E k \in 1..Len(all_papers) :
          all_papers[k].pdf_link = <<>> /\ all_papers[k].has_pdf
    /\ \E k \in 1..Len(all_papers) :
          all_papers[k].pdf_link = <<>> /\ ~all_papers[k].has_pdf

\* C7: a search with a non-blank topic that gathers no result answers with
\* status 200, count 0, an empty papers list and a non-empty error message.
C7_EmptyResultIsSuccess ==
    (pc = "done" /\ topic # <<>> /\ papers = <<>>) =>
        /\ response.status = 200
        /\ DOMAIN response.body = {"error", "papers", "count"}
        /\ response.body.count = 0
        /\ response.body.papers = <<>>
        /\ response.body.error # ""

C7_Witness ==
    /\ pc = "done" /\ topic # <<>> /\ papers = <<>>
    /\ Len(served) = 1
    /\ served[1].ok /\ served[1].blocks = <<>>

\* C8: every delay of the scraper is followed by another page fetch; no delay
\* comes after the last page fetch of the run.
C8_DelayOnlyBetweenFetches ==
    \A k \in 1..Len(io) :
        io[k].op = "sleep" =>
            IF k < Len(io) THEN io[k + 1].op = "get" ELSE pc = "page"

\* pages are fetched in increasing order, offset = page index * 10, none twice
C10_OffsetsInOrder == \A k \in 1..Len(Gets) : Gets[k].arg = (k - 1) * 10

\* every fetch but the last was followed by no stop condition
C10_NoFetchAfterStop ==
    \A k \in 1..(Len(served) - 1) :
        /\ served[k].ok
        /\ served[k].blocks # <<>>
        /\ Len(Gathered(SubSeq(served, 1, k))) < num

\* the returned list is the first desired_count records gathered, in order
C10_ResultIsPrefix ==
    Scraped =>
        LET g == Gathered(served)
        IN  /\ Len(papers) = Min(Max(num, 0), Len(g))
            /\ \A k \in 1..Len(papers) : papers[k] = g[k]

\* C10 as stated: pages are fetched in increasing order, at most
\* floor(desired_count/10)+1 of them, none after a stop condition; the result
\* is the first desired_count records gathered, in page and document order.
C10_FetchOrderAndBudget ==
    /\ C10_OffsetsInOrder
    /\ Len(Gets) = Len(served)
    /\ ((pc # "start" /\ topic # <<>>) => Len(Gets) <= (num \div 10) + 1)
    /\ C10_NoFetchAfterStop
    /\ C10_ResultIsPrefix

\* C10 amended: as stated, with at most max(0, floor(desired_count/10)+1)
\* fetches (a desired_count below -10 gives a negative page count and no fetch).
C10_FetchOrderAndBudgetOrZero ==
    /\ C10_OffsetsInOrder
    /\ Len(Gets) = Len(served)
    /\ ((pc # "start" /\ topic # <<>>) => Len(Gets) <= Max(0, (num \div 10) + 1))
    /\ C10_NoFetchAfterStop
    /\ C10_ResultIsPrefix

\* a failure on the third page keeps the two pages gathered before it
C10_Witness ==
    /\ Scraped
    /\ Len(served) = 3
    /\ ~served[3].ok
    /\ Len(papers) = 12
    /\ Len(Gets) = 3 /\ Gets[3].arg = 20

-----------------------------------------------------------------------------
(* POST /api/download-zip *)

NA == <<"N", "/", "A">>
PdfMagic == <<"%", "P", "D", "F">>
DotPdfSuffix == <<".", "p", "d", "f">>
ReportName == <<"m", "e", "t", "a", "d", "a", "t", "a", "_", "r", "e", "p", "o", "r", "t", ".", "t", "x", "t">>
DefaultZipTopic == <<"r", "e", "s", "e", "a", "r", "c", "h", "_", "p", "a", "p", "e", "r", "s">>
ZipSuffix == <<"_", "p", "a", "p", "e", "r", "s", ".", "z", "i", "p">>
PaperPrefix == <<"p", "a", "p", "e", "r", "_">>

TitleAB == <<"a", " ", "b">>
UrlOne == <<"u", "1">>
UrlTwo == <<"u", "2">>

\* the records a request can list; None is a key the record does not have
RecordShapes ==
    { [title |-> TitleAB, authors |-> <<"S">>, year |-> <<"2", "0", "1", "9">>,
       abstract |-> Pad(ABSTRACT_LIMIT + 1), download_url |-> UrlOne],
      [title |-> None, authors |-> None, year |-> None,
       abstract |-> None, download_url |-> None],
      [title |-> <<"<", "c", ">">>, authors |-> <<"S">>, year |-> NA,
       abstract |-> <<"x">>, download_url |-> <<>>],
      [title |-> TitleAB, authors |-> None, year |-> NA,
       abstract |-> <<>>, download_url |-> UrlTwo] }

RECURSIVE ListsUpTo(_)
ListsUpTo(n) ==
    IF n = 0 THEN {<<>>}
    ELSE LET shorter == ListsUpTo(n - 1)
         IN  shorter \cup {Append(l, r) : l \in {x \in shorter : Len(x) = n - 1}, r \in RecordShapes}

\* what one requests.get of a download_url can give: a transport error, or a
\* response with a status and a payload
FetchOutcomes ==
    { [transport |-> TRUE,  status |-> 0,   content |-> <<>>],
      [transport |-> FALSE, status |-> 200, content |-> <<"%", "P", "D", "F", "-">>],
      [transport |-> FALSE, status |-> 200, content |-> <<"<", "h", "t", "m", "l">>],
      [transport |-> FALSE, status |-> 200, content |-> <<"%", "P", "D">>],
      [transport |-> FALSE, status |-> 300, content |-> <<"%", "P", "D", "F", "-">>],
      [transport |-> FALSE, status |-> 404, content |-> <<"%", "P", "D", "F", "-">>] }

\* paper.get(key, default)
GetOr(v, default) == IF v = None THEN default ELSE v

\* title = paper.get("title", f"paper_{i+1}")
TitleOf(paper, idx) == GetOr(paper.title, PaperPrefix \o DecStr(idx + 1))

\* a report block numbered from 0
ReportBlockZeroBased(paper, idx) ==
    [ index    |-> idx,
      title    |-> TitleOf(paper, idx),
      authors  |-> GetOr(paper.authors, NA),
      year     |-> GetOr(paper.year, NA),
      abstract |-> PyPrefix(GetOr(paper.abstract, NA), ABSTRACT_LIMIT),
      pdf_url  |-> IF Truthy(paper.download_url) THEN paper.download_url ELSE NA ]

\* the six metadata_lines.append calls for one paper
ReportBlock(paper, idx) ==
    [ index    |-> idx + 1,
      title    |-> TitleOf(paper, idx),
      authors  |-> GetOr(paper.authors, NA),
      year     |-> GetOr(paper.year, NA),
      abstract |-> PyPrefix(GetOr(paper.abstract, NA), ABSTRACT_LIMIT),
      pdf_url  |-> IF Truthy(paper.download_url) THEN paper.download_url ELSE NA ]

\* resp.raise_for_status() raises, or requests.get raised
Raises(outcome) == outcome.transport \/ (400 <= outcome.status /\ outcome.status < 600)

\* `except requests.HTTPError:` instead of `except Exception:`
CaughtHttpErrorOnly(outcome) == ~outcome.transport

\* except Exception: continue
Caught(outcome) == TRUE

\* any payload accepted
IsPdfUnchecked(content) == TRUE

\* resp.content[:4] == b'%PDF'
IsPdf(content) == PyPrefix(content, MAGIC_LEN) = PdfMagic

InitZip == pc = "start" /\ Idle

\* download_zip() up to the loop
ZipRequest(ps, tp) ==
    /\ pc = "start"
    /\ papers' = ps
    /\ topic' = GetOr(tp, DefaultZipTopic)
    /\ IF ps = <<>>
       THEN /\ response' = [status |-> 400, body |-> [error |-> "No papers provided"]]
            /\ pc' = "done"
       ELSE /\ pc' = "record"
            /\ UNCHANGED response
    /\ UNCHANGED <<io, served, num, pages_needed, page_idx, all_papers>>
    /\ UNCHANGED zipVars /\ UNCHANGED sanitizeVars

AfterRecord(idx) == IF idx + 1 < Len(papers) THEN "record" ELSE "finish"

\* the start of one loop iteration: the report block, and the skip of a paper
\* without a URL
ZipReport ==
    /\ pc = "record"
    /\ metadata_lines' = Append(metadata_lines, ReportBlock(papers[i + 1], i))
    /\ IF ~Truthy(papers[i + 1].download_url)
       THEN /\ i' = i + 1
            /\ pc' = AfterRecord(i)
       ELSE /\ pc' = "fetch"
            /\ UNCHANGED i
    /\ UNCHANGED <<io, served, topic, num, pages_needed, page_idx, all_papers, papers,
                   response, downloaded, zf>>
    /\ UNCHANGED sanitizeVars

\* the rest of the iteration: the fetch, the check, the archive entry, the delay
ZipFetch(outcome) ==
    /\ pc = "fetch"
    /\ outcome \in FetchOutcomes
    /\ LET paper == papers[i + 1]
           io1 == Append(io, Get(paper.download_url))
       IN  /\ served' = Append(served, [rec |-> i + 1, outcome |-> outcome])
           /\ IF Raises(outcome)
              THEN IF Caught(outcome)
                   THEN /\ io' = io1
                        /\ i' = i + 1
                        /\ pc' = AfterRecord(i)
                        /\ UNCHANGED <<zf, downloaded, response>>
                   ELSE /\ io' = io1
                        /\ response' = [status |-> 500, body |-> [error |-> "Internal Server Error"]]
                        /\ pc' = "done"
                        /\ UNCHANGED <<zf, downloaded, i>>
              ELSE IF ~IsPdf(outcome.content)
                   THEN /\ io' = io1
                        /\ i' = i + 1
                        /\ pc' = AfterRecord(i)
                        /\ UNCHANGED <<zf, downloaded, response>>
                   ELSE /\ zf' = Append(zf, [name |-> sanitize(TitleOf(paper, i)) \o DotPdfSuffix,
                                             content |-> outcome.content,
                                             rec |-> i + 1])
                        /\ downloaded' = downloaded + 1
                        /\ io' = Append(io1, Sleep(ZIP_DELAY))
                        /\ i' = i + 1
                        /\ pc' = AfterRecord(i)
                        /\ UNCHANGED response
    /\ UNCHANGED <<topic, num, pages_needed, page_idx, all_papers, papers, metadata_lines>>
    /\ UNCHANGED sanitizeVars

\* the report entry; its content is the header fields and the joined blocks
MetadataText ==
    [ topic |-> topic, papers |-> Len(papers), downloaded |-> downloaded,
      lines |-> metadata_lines ]

\* the metadata report and the response
ZipFinish ==
    /\ pc = "finish"
    /\ zf' = Append(zf, [name |-> ReportName, content |-> MetadataText, rec |-> 0])
    /\ response' = [status |-> 200,
                    body |-> [zip |-> zf', filename |-> sanitize(topic) \o ZipSuffix]]
    /\ pc' = "done"
    /\ UNCHANGED <<io, served, topic, num, pages_needed, page_idx, all_papers, papers,
                   i, downloaded, metadata_lines>>
    /\ UNCHANGED sanitizeVars

NextZip ==
    \/ \E ps \in ListsUpTo(MaxPapers), tp \in {None, <<"q", " ", "r">>} : ZipRequest(ps, tp)
    \/ ZipReport
    \/ \E outcome \in FetchOutcomes : ZipFetch(outcome)
    \/ ZipFinish

SpecZip == InitZip /\ [][NextZip]_vars

-----------------------------------------------------------------------------
(* Properties of the Archive Builder (SpecZip) *)

Finished == pc = "done" /\ papers # <<>>

PdfEntries == SelectSeq(zf, LAMBDA e : e.rec # 0)
ReportEntries == SelectSeq(zf, LAMBDA e : e.rec = 0)

HasUrl(k) == papers[k].download_url # None /\ Len(papers[k].download_url) > 0

StartsWithMagic(c) ==
    Len(c) >= 4 /\ c[1] = "%" /\ c[2] = "P" /\ c[3] = "D" /\ c[4] = "F"

\* the fetch issued for record k answered a response with this status class
\* and a payload starting with %PDF
FetchedPdf(k, lo, hi) ==
    \E a \in 1..Len(served) :
        /\ served[a].rec = k
        /\ ~served[a].outcome.transport
        /\ lo <= served[a].outcome.status /\ served[a].outcome.status < hi
        /\ StartsWithMagic(served[a].outcome.content)

EntriesOf(k) == Cardinality({a \in 1..Len(zf) : zf[a].rec = k})

\* C2: for a non-empty list the Archive Builder runs through all records and
\* answers with an archive holding the report, whatever each fetch gave.
C2_BatchNeverAborts ==
    Finished =>
        /\ response.status = 200
        /\ i = Len(papers)
        /\ Len(metadata_lines) = Len(papers)
        /\ Len(ReportEntries) = 1
        /\ response.body.zip = zf
        /\ zf[Len(zf)].name = ReportName

C2_Witness ==
    /\ Finished /\ response.status = 200
    /\ PdfEntries = <<>>
    /\ \E a \in 1..Len(served) : served[a].outcome.transport
    /\ \E a \in 1..Len(served) : served[a].outcome.status = 404
    /\ \E a \in 1..Len(served) :
          served[a].outcome.status = 200 /\ ~StartsWithMagic(served[a].outcome.content)

BlockMatches(b, k) ==
    /\ b.index = k
    /\ b.title = (IF papers[k].title = None THEN PaperPrefix \o DecStr(k) ELSE papers[k].title)
    /\ b.authors = (IF papers[k].authors = None THEN NA ELSE papers[k].authors)
    /\ b.year = (IF papers[k].year = None THEN NA ELSE papers[k].year)
    /\ Len(b.abstract) <= 200
    /\ b.abstract = (IF papers[k].abstract = None THEN NA
                     ELSE SubSeq(papers[k].abstract, 1, Min(200, Len(papers[k].abstract))))
    /\ b.pdf_url = (IF HasUrl(k) THEN papers[k].download_url ELSE NA)

\* C4: one report block per record, in input order and numbered 1..n, appended
\* before the record's fetch and whatever the fetch gives; the final report
\* holds as many blocks as there are records, and its header states the number
\* of records and the final downloaded count.
C4_ReportBlockPerRecord ==
    /\ \A k \in 1..Len(metadata_lines) : BlockMatches(metadata_lines[k], k)
    /\ pc = "record" => Len(metadata_lines) = i
    /\ pc = "fetch" =>
          /\ Len(metadata_lines) = i + 1
          /\ \A a \in 1..Len(served) : served[a].rec <= i
    /\ (Finished /\ response.status = 200) =>
          LET report == zf[Len(zf)].content
          IN  /\ Len(report.lines) = Len(papers)
              /\ report.lines = metadata_lines
              /\ report.papers = Len(papers)
              /\ report.downloaded = Len(PdfEntries)

\* three records: no URL, a failed fetch, a non-PDF payload; three blocks
C4_Witness ==
    /\ Finished
    /\ Len(papers) = 3
    /\ Len(metadata_lines) = 3
    /\ \E k \in 1..3 : ~HasUrl(k)
    /\ \E a \in 1..Len(served) : served[a].outcome.transport
    /\ \E a \in 1..Len(served) : served[a].outcome.status = 200
    /\ zf[Len(zf)].content.downloaded = 1

\* C9: every attempted download is followed by the 1-unit delay, whether it
\* succeeded, failed in transport or status, or failed the %PDF check.
C9_DelayAfterEveryAttempt ==
    \A k \in 1..Len(io) :
        io[k].op = "get" =>
            /\ k < Len(io)
            /\ io[k + 1].op = "sleep"
            /\ io[k + 1].arg = 1

-----------------------------------------------------------------------------
(* sanitize applied to a name, and to its own result *)

SanitizeChars == {"a", "_", " ", "\t", "<"}

RECURSIVE Tails(_)
Tails(n) ==
    IF n = 0 THEN {<<>>}
    ELSE LET shorter == Tails(n - 1)
         IN  shorter \cup {Append(t, c) : t \in {x \in shorter : Len(x) = n - 1}, c \in SanitizeChars}

\* names: a run of letters, short or up to the length limit, then a free tail
Names ==
    {Pad(n) \o t : n \in {0, NAME_LIMIT - 2, NAME_LIMIT - 1, NAME_LIMIT}, t \in Tails(MaxTail)}

InitSanitize ==
    /\ pc = "start"
    /\ io = <<>> /\ served = <<>>
    /\ topic = <<>> /\ num = 0 /\ pages_needed = 0 /\ page_idx = 0
    /\ all_papers = <<>> /\ papers = <<>> /\ response = NoResponse
    /\ i = 0 /\ downloaded = 0 /\ metadata_lines = <<>> /\ zf = <<>>
    /\ name \in Names /\ once = <<>> /\ twice = <<>>

searchVars == <<io, served, topic, num, pages_needed, page_idx, all_papers, papers, response>>

SanitizeOnce ==
    /\ pc = "start"
    /\ once' = sanitize(name)
    /\ pc' = "once"
    /\ UNCHANGED <<name, twice>>
    /\ UNCHANGED searchVars /\ UNCHANGED zipVars

SanitizeAgain ==
    /\ pc = "once"
    /\ twice' = sanitize(once)
    /\ pc' = "twice"
    /\ UNCHANGED <<name, once>>
    /\ UNCHANGED searchVars /\ UNCHANGED zipVars

NextSanitize == SanitizeOnce \/ SanitizeAgain

SpecSanitize == InitSanitize /\ [][NextSanitize]_vars

\* C5: sanitize is idempotent: sanitize(sanitize(s)) = sanitize(s) for every s.
C5_SanitizeIdempotent == pc = "twice" => twice = once

====
